---- MODULE Spec2Model ----
(***************************************************************************)
(* The virtio crypto device manager (virtio_crypto_mgr.c): the global      *)
(* device table guarded by table_lock, the per-device reference count      *)
(* that pins the owning module, the started flag, and the node-aware       *)
(* device selection.                                                       *)
(*                                                                         *)
(* Threads call the exported functions concurrently.  A thread's position  *)
(* inside a function is pc[t]; the function's local variables are node[t]  *)
(* and dev[t]; the value a call hands back is ret[t], visible while the    *)
(* thread stands at the function's return (pc[t] ends in "_ret").          *)
(*                                                                         *)
(* Granularity.  Every access to shared memory that another thread can     *)
(* observe in between is a step of its own: the unlocked read of           *)
(* num_devices, mutex_lock, the locked section, atomic_add_return,         *)
(* try_module_get, atomic_sub_return, module_put, each list traversal of   *)
(* virtcrypto_get_dev_node, and the return.  A locked section is one step: *)
(* the only readers that do not take the lock read num_devices (add's      *)
(* capacity test) or the list (the selector), and what they can see from   *)
(* the middle of a locked section they can also see just before or just    *)
(* after it.                                                               *)
(***************************************************************************)
EXTENDS Integers, Sequences, FiniteSets

(* ------------------------------ bounds -------------------------------- *)

\* Device handles that exist (struct virtio_crypto instances): 1..NumDevs.
NumDevs == 3

\* Calling threads: 1..NumThreads.
NumThreads == 2

\* NUMA nodes 0..NumNodes-1; a device may also sit on no node (-1).
NumNodes == 2

\* References a caller may stack up on one device before it must release.
MaxRef == 2

\* The table's capacity.  The source sets 32 (line 25); the model keeps the
\* comparison of line 42 and scales the number so that the full table, and
\* one entry more, are reachable.
VIRTIO_CRYPTO_MAX_DEVICES == 2

\* References on the owner module the model follows: no call that could pin
\* the module starts once the module's count has reached this.
MaxModuleRefs == 2

(* ----------------------------- constants ------------------------------ *)

Devs == 1..NumDevs
Threads == 1..NumThreads

\* The null pointer, also "no thread" for the mutex owner.
NULL == 0

\* dev_id of a device that virtcrypto_devmgr_add_dev has never numbered:
\* no id (ids are unsigned).
NoId == 0 - 1

\* Error numbers as the functions return them (negated errno).
EFAULT == 14
EEXIST == 17

\* The nodes a caller may pass to virtcrypto_get_dev_node: every node, and
\* NUMA_NO_NODE (-1), which is the node of no device that has one.
Hints == (0 - 1)..(NumNodes - 1)

\* dev_to_node(&dev->vdev->dev): where the bus put the device.  Device 1 is
\* on node 0, device 2 on node 1, ..., and the device after the last node
\* is on no node (-1).
dev_to_node(d) ==
    LET k == (d - 1) % (NumNodes + 1) IN IF k = NumNodes THEN 0 - 1 ELSE k

VARIABLES
    table,        \* virtio_crypto_table: the devices in list order
    table_lock,   \* table_lock: NULL, or the thread that holds the mutex
    num_devices,  \* num_devices
    dev_id,       \* dev_id[d]: vcrypto_dev->dev_id
    ref_count,    \* ref_count[d]: vcrypto_dev->ref_count (atomic_t, signed)
    status,       \* status[d]: the VIRTIO_CRYPTO_S_STARTED bit of ->status
    module_refs,  \* reference count of the owner module (try_module_get/module_put)
    pc,           \* pc[t]: where thread t stands
    node,         \* node[t]: the argument of virtcrypto_get_dev_node
    dev,          \* dev[t]: the device argument, or the selector's vcrypto_dev
    ret,          \* ret[t]: the value being returned
    held          \* held[t][d]: references thread t was given and has not released

shared == <<table, table_lock, num_devices, dev_id, ref_count, status, module_refs>>
locals == <<pc, node, dev, ret>>
vars == <<table, table_lock, num_devices, dev_id, ref_count, status, module_refs,
          pc, node, dev, ret, held>>

(* ------------------------------ helpers ------------------------------- *)

\* Positions of d in the list.
Positions(d) == {i \in 1..Len(table) : table[i] = d}

\* The duplicate scan starting one entry too late: it misses the first.
InTableSkipFirst(d) == \E i \in 2..Len(table) : table[i] = d

\* The scan of line 49-57 finds d.
InTable(d) == Positions(d) # {}

\* An unlink that drops the tail of the list instead of d.
ListDelLast(s, d) == SubSeq(s, 1, Len(s) - 1)

\* list_del: unlink d, the others keep their order.
RECURSIVE ListDel(_, _)
ListDel(s, d) ==
    IF s = <<>> THEN <<>>
    ELSE IF Head(s) = d THEN Tail(s)
    ELSE <<Head(s)>> \o ListDel(Tail(s), d)

\* best > ctr on unsigned long operands that are both conversions of an int
\* (~0 is the conversion of -1, ctr the conversion of atomic_read()): the
\* conversion keeps non-negative values and maps the negative ones above
\* them, in their own order.
UnsignedGreater(a, b) ==
    IF (a < 0) = (b < 0) THEN a > b ELSE a < 0

\* virtcrypto_dev_in_use
virtcrypto_dev_in_use(d) == ref_count[d] # 0

\* virtcrypto_dev_started
virtcrypto_dev_started(d) == status[d]

\* NodeMatch without the test of the started bit.
NodeMatchAnyStatus(n, d) ==
    n = dev_to_node(d) \/ dev_to_node(d) < 0

\* The condition of line 168-170 for one list entry.
NodeMatch(n, d) ==
    (n = dev_to_node(d) \/ dev_to_node(d) < 0) /\ virtcrypto_dev_started(d)

\* The first loop of virtcrypto_get_dev_node from list position i on, with
\* the locals vcrypto_dev = cur and best.
RECURSIVE ScanBest(_, _, _, _)
ScanBest(i, n, cur, best) ==
    IF i > Len(table) THEN cur
    ELSE LET tmp == table[i] IN
         IF NodeMatch(n, tmp) /\ UnsignedGreater(best, ref_count[tmp])
         THEN ScanBest(i + 1, n, tmp, ref_count[tmp])
         ELSE ScanBest(i + 1, n, cur, best)

\* ScanAny without the break: the last started device, not the first.
RECURSIVE ScanAnyNoBreak(_)
ScanAnyNoBreak(i) ==
    IF i > Len(table) THEN NULL
    ELSE LET later == ScanAnyNoBreak(i + 1) IN
         IF later # NULL THEN later
         ELSE IF status[table[i]] THEN table[i]
         ELSE NULL

\* The second loop ("Get any started device") from list position i on.
RECURSIVE ScanAny(_)
ScanAny(i) ==
    IF i > Len(table) THEN NULL
    ELSE IF virtcrypto_dev_started(table[i]) THEN table[i]
    ELSE ScanAny(i + 1)

\* atomic_add_return(1, ..) == 1: the caller must pin the module.
FirstGet(newval) == newval = 1

\* LastPut one too early: the module is unpinned by the put that leaves
\* one reference.
LastPutOffByOne(newval) == newval = 1

\* atomic_sub_return(1, ..) == 0: the caller must unpin the module.
LastPut(newval) == newval = 0

(* ------------------------------- Init --------------------------------- *)

\* An empty list, a free mutex, num_devices zero (static storage), and
\* device structures as the driver allocates them: no reference taken, not
\* started, not numbered.
Init ==
    /\ table = <<>>
    /\ table_lock = NULL
    /\ num_devices = 0
    /\ dev_id = [d \in Devs |-> NoId]
    /\ ref_count = [d \in Devs |-> 0]
    /\ status = [d \in Devs |-> FALSE]
    /\ module_refs = 0
    /\ pc = [t \in Threads |-> "idle"]
    /\ node = [t \in Threads |-> 0]
    /\ dev = [t \in Threads |-> NULL]
    /\ ret = [t \in Threads |-> 0]
    /\ held = [t \in Threads |-> [d \in Devs |-> 0]]

\* Thread t moves to position p with locals n, d and return value r.
Goto(t, p, n, d, r) ==
    /\ pc' = [pc EXCEPT ![t] = p]
    /\ node' = [node EXCEPT ![t] = n]
    /\ dev' = [dev EXCEPT ![t] = d]
    /\ ret' = [ret EXCEPT ![t] = r]

\* The reference the caller owns once the call at position p has handed
\* back r: virtcrypto_dev_get returning 0 gives one on its argument d,
\* virtcrypto_get_dev_node gives one on the device it returns.
Given(p, d, r) ==
    IF p = "get_ret" /\ r = 0 THEN d
    ELSE IF p = "sel_ret" THEN r
    ELSE NULL

\* The call is over: the caller has the value and goes on.
Return(t) ==
    /\ pc[t] \in {"add_ret", "first_ret", "get_ret", "sel_ret", "start_ret", "stop_ret"}
    /\ LET g == Given(pc[t], dev[t], ret[t]) IN
       held' = IF g = NULL THEN held
               ELSE [held EXCEPT ![t][g] = @ + 1]
    /\ Goto(t, "idle", 0, NULL, 0)
    /\ UNCHANGED shared

(* ------------------------ virtcrypto_devmgr_add_dev -------------------- *)

\* The capacity test off by one: it lets one device too many through.
AddCheckOffByOne(t, d) ==
    /\ pc[t] = "idle"
    /\ IF num_devices = VIRTIO_CRYPTO_MAX_DEVICES + 1
       THEN Goto(t, "add_ret", 0, d, 0 - EFAULT)
       ELSE Goto(t, "add_lock", 0, d, 0)
    /\ UNCHANGED <<shared, held>>

\* Line 42-46: the capacity test, made before the mutex is taken.
AddCheck(t, d) ==
    /\ pc[t] = "idle"
    /\ IF num_devices = VIRTIO_CRYPTO_MAX_DEVICES
       THEN Goto(t, "add_ret", 0, d, 0 - EFAULT)
       ELSE Goto(t, "add_lock", 0, d, 0)
    /\ UNCHANGED <<shared, held>>

\* Line 48: mutex_lock.
AddLock(t) ==
    /\ pc[t] = "add_lock"
    /\ table_lock = NULL
    /\ table_lock' = t
    /\ Goto(t, "add_body", 0, dev[t], 0)
    /\ UNCHANGED <<table, num_devices, dev_id, ref_count, status, module_refs, held>>

\* The duplicate path returning without mutex_unlock.
AddBodyKeepsLockOnDuplicate(t) ==
    /\ pc[t] = "add_body"
    /\ table_lock = t
    /\ IF InTable(dev[t])
       THEN /\ Goto(t, "add_ret", 0, dev[t], 0 - EEXIST)
            /\ UNCHANGED <<table, table_lock, num_devices, dev_id, ref_count>>
       ELSE /\ table_lock' = NULL
            /\ ref_count' = [ref_count EXCEPT ![dev[t]] = 0]
            /\ table' = Append(table, dev[t])
            /\ dev_id' = [dev_id EXCEPT ![dev[t]] = num_devices]
            /\ num_devices' = num_devices + 1
            /\ Goto(t, "add_ret", 0, dev[t], 0)
    /\ UNCHANGED <<status, module_refs, held>>

\* Line 49-62: the duplicate scan, the insertion, mutex_unlock.
AddBody(t) ==
    /\ pc[t] = "add_body"
    /\ table_lock = t
    /\ table_lock' = NULL
    /\ IF InTable(dev[t])
       THEN /\ Goto(t, "add_ret", 0, dev[t], 0 - EEXIST)
            /\ UNCHANGED <<table, num_devices, dev_id, ref_count>>
       ELSE /\ ref_count' = [ref_count EXCEPT ![dev[t]] = 0]
            /\ table' = Append(table, dev[t])
            /\ dev_id' = [dev_id EXCEPT ![dev[t]] = num_devices]
            /\ num_devices' = num_devices + 1
            /\ Goto(t, "add_ret", 0, dev[t], 0)
    /\ UNCHANGED <<status, module_refs, held>>

(* ------------------------ virtcrypto_devmgr_rm_dev --------------------- *)

\* Line 82: mutex_lock.  The driver removes a device it has added: the
\* device is in the list when the lock is taken.
RmLock(t, d) ==
    /\ pc[t] = "idle"
    /\ InTable(d)
    /\ table_lock = NULL
    /\ table_lock' = t
    /\ Goto(t, "rm_body", 0, d, 0)
    /\ UNCHANGED <<table, num_devices, dev_id, ref_count, status, module_refs, held>>

\* The call of virtcrypto_devmgr_rm_dev(d), up to line 82 where it waits
\* for the mutex.  The driver removes a device it has added, and no two
\* threads remove the same device.
RmCall(t, d) ==
    /\ pc[t] = "idle"
    /\ InTable(d)
    /\ \A u \in Threads : pc[u] \in {"rm_lock", "rm_body"} => dev[u] # d
    /\ Goto(t, "rm_lock", 0, d, 0)
    /\ UNCHANGED <<shared, held>>

\* Line 82: mutex_lock returns.
RmAcquire(t) ==
    /\ pc[t] = "rm_lock"
    /\ table_lock = NULL
    /\ table_lock' = t
    /\ Goto(t, "rm_body", 0, dev[t], 0)
    /\ UNCHANGED <<table, num_devices, dev_id, ref_count, status, module_refs, held>>

\* The unlink without the decrement of num_devices.
RmBodyKeepsCount(t) ==
    /\ pc[t] = "rm_body"
    /\ table_lock = t
    /\ table' = ListDel(table, dev[t])
    /\ table_lock' = NULL
    /\ Goto(t, "idle", 0, NULL, 0)
    /\ UNCHANGED <<num_devices, dev_id, ref_count, status, module_refs, held>>

\* Line 83-85: list_del, num_devices--, mutex_unlock; the function is void.
RmBody(t) ==
    /\ pc[t] = "rm_body"
    /\ table_lock = t
    /\ table' = ListDel(table, dev[t])
    /\ num_devices' = num_devices - 1
    /\ table_lock' = NULL
    /\ Goto(t, "idle", 0, NULL, 0)
    /\ UNCHANGED <<dev_id, ref_count, status, module_refs, held>>

(* ----------------------- virtcrypto_devmgr_get_first ------------------- *)

\* Line 90-95: NULL for an empty list, else the entry after the list head.
virtcrypto_devmgr_get_first ==
    IF Len(table) = 0 THEN NULL ELSE table[1]

\* A call of virtcrypto_devmgr_get_first; it takes no lock.
GetFirst(t) ==
    /\ pc[t] = "idle"
    /\ Goto(t, "first_ret", 0, NULL, virtcrypto_devmgr_get_first)
    /\ UNCHANGED <<shared, held>>

(* --------------------------- virtcrypto_dev_get ------------------------ *)

\* The calls that take a reference stop at the model's bounds.
MayGet(t, d) ==
    /\ ref_count[d] < MaxRef
    /\ held[t][d] < MaxRef
    /\ module_refs < MaxModuleRefs

\* Line 124: atomic_add_return(1, &ref_count), reached from position p
\* (a call of virtcrypto_dev_get, or line 194 of the selector).  pin and
\* done are the positions after it: at try_module_get, or at the return.
AtomicAddReturn(t, d, pin, done, r) ==
    /\ MayGet(t, d)
    /\ ref_count' = [ref_count EXCEPT ![d] = @ + 1]
    /\ IF FirstGet(ref_count[d] + 1)
       THEN Goto(t, pin, node[t], d, 0)
       ELSE Goto(t, done, node[t], d, r)
    /\ UNCHANGED <<table, table_lock, num_devices, dev_id, status, module_refs, held>>

\* virtcrypto_dev_get(d), line 124.
Get(t, d) ==
    /\ pc[t] = "idle"
    /\ AtomicAddReturn(t, d, "get_pin", "get_ret", 0)

\* Line 125, try_module_get succeeds: the module's count goes up, return 0.
GetPin(t) ==
    /\ pc[t] = "get_pin"
    /\ module_refs' = module_refs + 1
    /\ Goto(t, "get_ret", 0, dev[t], 0)
    /\ UNCHANGED <<table, table_lock, num_devices, dev_id, ref_count, status, held>>

\* try_module_get may fail while the module's count is above the model's
\* lower bound.
MayFailPin == module_refs > 0 - MaxModuleRefs

\* The failure path with the increment taken back.
GetPinFailRollback(t) ==
    /\ pc[t] = "get_pin"
    /\ MayFailPin
    /\ ref_count' = [ref_count EXCEPT ![dev[t]] = @ - 1]
    /\ Goto(t, "get_ret", 0, dev[t], 0 - EFAULT)
    /\ UNCHANGED <<table, table_lock, num_devices, dev_id, status, module_refs, held>>

\* Line 125-126, try_module_get fails (the module is being unloaded):
\* return -EFAULT, ref_count stays incremented.
GetPinFail(t) ==
    /\ pc[t] = "get_pin"
    /\ MayFailPin
    /\ Goto(t, "get_ret", 0, dev[t], 0 - EFAULT)
    /\ UNCHANGED <<shared, held>>

(* --------------------------- virtcrypto_dev_put ------------------------ *)

\* Line 143: atomic_sub_return(1, &ref_count).  The caller gives up a
\* reference it holds.
Put(t, d) ==
    /\ pc[t] = "idle"
    /\ held[t][d] > 0
    /\ held' = [held EXCEPT ![t][d] = @ - 1]
    /\ ref_count' = [ref_count EXCEPT ![d] = @ - 1]
    /\ IF LastPut(ref_count[d] - 1)
       THEN Goto(t, "put_unpin", 0, d, 0)
       ELSE Goto(t, "idle", 0, NULL, 0)
    /\ UNCHANGED <<table, table_lock, num_devices, dev_id, status, module_refs>>

\* Line 144: module_put; the function is void.
PutUnpin(t) ==
    /\ pc[t] = "put_unpin"
    /\ module_refs' = module_refs - 1
    /\ Goto(t, "idle", 0, NULL, 0)
    /\ UNCHANGED <<table, table_lock, num_devices, dev_id, ref_count, status, held>>

(* ------------------------- virtcrypto_get_dev_node --------------------- *)

\* Line 162-177: the first traversal, over the devices of the node.
SelScan(t, n) ==
    /\ pc[t] = "idle"
    /\ LET found == ScanBest(1, n, NULL, 0 - 1) IN
       IF found # NULL
       THEN Goto(t, "sel_get", n, found, 0)
       ELSE Goto(t, "sel_any", n, NULL, 0)
    /\ UNCHANGED <<shared, held>>

\* Line 179-192: nothing on the node: the second traversal, and the return
\* of NULL when it finds nothing either.
SelAny(t) ==
    /\ pc[t] = "sel_any"
    /\ LET found == ScanAny(1) IN
       IF found # NULL
       THEN Goto(t, "sel_get", node[t], found, 0)
       ELSE Goto(t, "sel_ret", node[t], NULL, NULL)
    /\ UNCHANGED <<shared, held>>

\* Line 194: virtcrypto_dev_get(vcrypto_dev), its atomic_add_return.
SelGet(t) ==
    /\ pc[t] = "sel_get"
    /\ AtomicAddReturn(t, dev[t], "sel_pin", "sel_ret", dev[t])

\* Line 194-195: try_module_get inside virtcrypto_dev_get succeeds; the
\* selector returns the device.
SelPin(t) ==
    /\ pc[t] = "sel_pin"
    /\ module_refs' = module_refs + 1
    /\ Goto(t, "sel_ret", node[t], dev[t], dev[t])
    /\ UNCHANGED <<table, table_lock, num_devices, dev_id, ref_count, status, held>>

\* The selector giving up when virtcrypto_dev_get reports a failure.
SelPinFailReturnsNull(t) ==
    /\ pc[t] = "sel_pin"
    /\ MayFailPin
    /\ Goto(t, "sel_ret", node[t], dev[t], NULL)
    /\ UNCHANGED <<shared, held>>

\* Line 194-195: try_module_get fails; the selector ignores the result of
\* virtcrypto_dev_get and returns the device all the same.
SelPinFail(t) ==
    /\ pc[t] = "sel_pin"
    /\ MayFailPin
    /\ Goto(t, "sel_ret", node[t], dev[t], dev[t])
    /\ UNCHANGED <<shared, held>>

(* ----------------- virtcrypto_dev_start, virtcrypto_dev_stop ----------- *)

\* Line 210-216 with virtio_crypto_algs_register() returning 0.
Start(t, d) ==
    /\ pc[t] = "idle"
    /\ status' = [status EXCEPT ![d] = TRUE]
    /\ Goto(t, "start_ret", 0, d, 0)
    /\ UNCHANGED <<table, table_lock, num_devices, dev_id, ref_count, module_refs, held>>

\* The status bit set before the registration is known to have worked.
StartFailSetsStarted(t, d) ==
    /\ pc[t] = "idle"
    /\ status' = [status EXCEPT ![d] = TRUE]
    /\ Goto(t, "start_ret", 0, d, 0 - EFAULT)
    /\ UNCHANGED <<table, table_lock, num_devices, dev_id, ref_count, module_refs, held>>

\* Line 210-213 with virtio_crypto_algs_register() failing.
StartFail(t, d) ==
    /\ pc[t] = "idle"
    /\ Goto(t, "start_ret", 0, d, 0 - EFAULT)
    /\ UNCHANGED <<shared, held>>

\* Line 231-235.
Stop(t, d) ==
    /\ pc[t] = "idle"
    /\ status' = [status EXCEPT ![d] = FALSE]
    /\ Goto(t, "stop_ret", 0, d, 0)
    /\ UNCHANGED <<table, table_lock, num_devices, dev_id, ref_count, module_refs, held>>

(* --------------------------- specifications --------------------------- *)

\* Every call of every thread: the whole interface under arbitrary
\* interleaving.
Next ==
    \/ \E t \in Threads, d \in Devs : AddCheck(t, d)
    \/ \E t \in Threads : AddLock(t)
    \/ \E t \in Threads : AddBody(t)
    \/ \E t \in Threads, d \in Devs : RmLock(t, d)
    \/ \E t \in Threads : RmBody(t)
    \/ \E t \in Threads : GetFirst(t)
    \/ \E t \in Threads, d \in Devs : Get(t, d)
    \/ \E t \in Threads : GetPin(t)
    \/ \E t \in Threads : GetPinFail(t)
    \/ \E t \in Threads, d \in Devs : Put(t, d)
    \/ \E t \in Threads : PutUnpin(t)
    \/ \E t \in Threads, n \in Hints : SelScan(t, n)
    \/ \E t \in Threads : SelAny(t)
    \/ \E t \in Threads : SelGet(t)
    \/ \E t \in Threads : SelPin(t)
    \/ \E t \in Threads : SelPinFail(t)
    \/ \E t \in Threads, d \in Devs : Start(t, d)
    \/ \E t \in Threads, d \in Devs : StartFail(t, d)
    \/ \E t \in Threads, d \in Devs : Stop(t, d)
    \/ \E t \in Threads : Return(t)

Spec == Init /\ [][Next]_vars

\* The registry alone: threads add and remove devices concurrently.
RegNext ==
    \/ \E t \in Threads, d \in Devs : AddCheck(t, d)
    \/ \E t \in Threads : AddLock(t)
    \/ \E t \in Threads : AddBody(t)
    \/ \E t \in Threads, d \in Devs : RmLock(t, d)
    \/ \E t \in Threads : RmBody(t)
    \/ \E t \in Threads : Return(t)

RegSpec == Init /\ [][RegNext]_vars

\* The reference count alone: threads take and release references
\* concurrently, each release paired with an earlier successful get, and
\* try_module_get always succeeds.
RefNext ==
    \/ \E t \in Threads, d \in Devs : Get(t, d)
    \/ \E t \in Threads : GetPin(t)
    \/ \E t \in Threads, d \in Devs : Put(t, d)
    \/ \E t \in Threads : PutUnpin(t)
    \/ \E t \in Threads : Return(t)

RefSpec == Init /\ [][RefNext]_vars

\* The selector against the driver: thread 1 is the driver thread, which
\* adds, starts, stops and removes devices; the other threads are clients,
\* which select a device and release it.  The driver keeps to the order of
\* its probe and remove paths: it starts and stops devices it has added,
\* and removes a device once it is stopped and virtcrypto_dev_in_use says
\* it is idle.
Driver == 1
Clients == Threads \ {Driver}

SelNext ==
    \/ \E d \in Devs : AddCheck(Driver, d)
    \/ AddLock(Driver)
    \/ AddBody(Driver)
    \/ \E d \in Devs : ~status[d] /\ ~virtcrypto_dev_in_use(d) /\ RmLock(Driver, d)
    \/ RmBody(Driver)
    \/ \E d \in Devs : InTable(d) /\ Start(Driver, d)
    \/ \E d \in Devs : InTable(d) /\ Stop(Driver, d)
    \/ \E t \in Clients, n \in Hints : SelScan(t, n)
    \/ \E t \in Clients : SelAny(t)
    \/ \E t \in Clients : SelGet(t)
    \/ \E t \in Clients : SelPin(t)
    \/ \E t \in Clients, d \in Devs : Put(t, d)
    \/ \E t \in Clients : PutUnpin(t)
    \/ \E t \in Threads : Return(t)

SelSpec == Init /\ [][SelNext]_vars

\* One caller: every call runs from its first statement to its return with
\* nothing in between (no interleaving), try_module_get and
\* virtio_crypto_algs_register succeeding.
Caller == 1

SeqNext ==
    \/ \E d \in Devs : AddCheck(Caller, d)
    \/ AddLock(Caller)
    \/ AddBody(Caller)
    \/ \E d \in Devs : RmLock(Caller, d)
    \/ RmBody(Caller)
    \/ \E d \in Devs : Get(Caller, d)
    \/ GetPin(Caller)
    \/ \E d \in Devs : Put(Caller, d)
    \/ PutUnpin(Caller)
    \/ \E n \in Hints : SelScan(Caller, n)
    \/ SelAny(Caller)
    \/ SelGet(Caller)
    \/ SelPin(Caller)
    \/ \E d \in Devs : Start(Caller, d)
    \/ \E d \in Devs : Stop(Caller, d)
    \/ Return(Caller)

SeqSpec == Init /\ [][SeqNext]_vars

\* One caller, with the failure of virtio_crypto_algs_register.
LifeNext ==
    \/ SeqNext
    \/ \E d \in Devs : StartFail(Caller, d)

LifeSpec == Init /\ [][LifeNext]_vars

\* One caller, with the failure of try_module_get: devices are added and
\* started, references are taken by virtcrypto_dev_get and by the selector
\* and released.
PinNext ==
    \/ \E d \in Devs : AddCheck(Caller, d)
    \/ AddLock(Caller)
    \/ AddBody(Caller)
    \/ \E d \in Devs : Start(Caller, d)
    \/ \E d \in Devs : Get(Caller, d)
    \/ GetPin(Caller)
    \/ GetPinFail(Caller)
    \/ \E d \in Devs : Put(Caller, d)
    \/ PutUnpin(Caller)
    \/ \E n \in Hints : SelScan(Caller, n)
    \/ SelAny(Caller)
    \/ SelGet(Caller)
    \/ SelPin(Caller)
    \/ SelPinFail(Caller)
    \/ Return(Caller)

PinSpec == Init /\ [][PinNext]_vars

\* One caller that takes references only on devices that are in the table
\* at the time: by virtcrypto_dev_get on a registered device, or from the
\* selector.  Devices may be removed while references are outstanding.
HoldNext ==
    \/ \E d \in Devs : AddCheck(Caller, d)
    \/ AddLock(Caller)
    \/ AddBody(Caller)
    \/ \E d \in Devs : RmLock(Caller, d)
    \/ RmBody(Caller)
    \/ \E d \in Devs : InTable(d) /\ Get(Caller, d)
    \/ GetPin(Caller)
    \/ \E d \in Devs : Put(Caller, d)
    \/ PutUnpin(Caller)
    \/ \E n \in Hints : SelScan(Caller, n)
    \/ SelAny(Caller)
    \/ SelGet(Caller)
    \/ SelPin(Caller)
    \/ \E d \in Devs : InTable(d) /\ Start(Caller, d)
    \/ \E d \in Devs : InTable(d) /\ Stop(Caller, d)
    \/ Return(Caller)

HoldSpec == Init /\ [][HoldNext]_vars

\* One caller working on the table: devices are added, started, stopped,
\* held and removed, and the head of the table is read.
TableNext ==
    \/ \E d \in Devs : AddCheck(Caller, d)
    \/ AddLock(Caller)
    \/ AddBody(Caller)
    \/ \E d \in Devs : RmLock(Caller, d)
    \/ RmBody(Caller)
    \/ GetFirst(Caller)
    \/ \E d \in Devs : InTable(d) /\ Get(Caller, d)
    \/ GetPin(Caller)
    \/ \E d \in Devs : Put(Caller, d)
    \/ PutUnpin(Caller)
    \/ \E d \in Devs : InTable(d) /\ Start(Caller, d)
    \/ \E d \in Devs : InTable(d) /\ Stop(Caller, d)
    \/ Return(Caller)

TableSpec == Init /\ [][TableNext]_vars

\* The registry with the wait for the mutex spelt out in both functions.
LockNext ==
    \/ \E t \in Threads, d \in Devs : AddCheck(t, d)
    \/ \E t \in Threads : AddLock(t)
    \/ \E t \in Threads : AddBody(t)
    \/ \E t \in Threads, d \in Devs : RmCall(t, d)
    \/ \E t \in Threads : RmAcquire(t)
    \/ \E t \in Threads : RmBody(t)
    \/ \E t \in Threads : Return(t)

\* The scheduler is fair: a thread inside the locked section goes on
\* running (weak fairness), and a thread that waits for the mutex gets it
\* if the mutex is free again and again (strong fairness: the kernel's
\* mutex hands the lock to its waiters).  Nothing obliges a thread to make
\* a call.
LockFairSpec ==
    /\ Init
    /\ [][LockNext]_vars
    /\ \A t \in Threads : WF_vars(AddBody(t)) /\ WF_vars(RmBody(t))
    /\ \A t \in Threads : SF_vars(AddLock(t)) /\ SF_vars(RmAcquire(t))

\* The registry under concurrent add and remove, with the calls beside
\* them that leave the table alone: threads also read the head of the
\* table and start and stop devices.
CountNext ==
    \/ RegNext
    \/ \E t \in Threads : GetFirst(t)
    \/ \E t \in Threads, d \in Devs : Start(t, d)
    \/ \E t \in Threads, d \in Devs : Stop(t, d)

CountSpec == Init /\ [][CountNext]_vars

\* One caller that fills the registry: devices are added and references
\* taken and released, nothing is removed.
GrowNext ==
    \/ \E d \in Devs : AddCheck(Caller, d)
    \/ AddLock(Caller)
    \/ AddBody(Caller)
    \/ \E d \in Devs : Get(Caller, d)
    \/ GetPin(Caller)
    \/ \E d \in Devs : Put(Caller, d)
    \/ PutUnpin(Caller)
    \/ Return(Caller)

GrowSpec == Init /\ [][GrowNext]_vars

(* ------------------------------- claims ------------------------------- *)

\* C1: under concurrent add and remove calls the table never holds more
\* than VIRTIO_CRYPTO_MAX_DEVICES entries.
C1_TableWithinCapacity ==
    Len(table) <= VIRTIO_CRYPTO_MAX_DEVICES

\* C2: two distinct devices that are in the table at the same time have
\* different ids.
C2_DistinctIds ==
    \A d \in Devs, e \in Devs :
        (d # e /\ InTable(d) /\ InTable(e)) => dev_id[d] # dev_id[e]

\* The devices a step has just inserted into the table.
Inserted(before, after) ==
    {d \in Devs : (\E i \in 1..Len(after) : after[i] = d)
                   /\ ~(\E i \in 1..Len(before) : before[i] = d)}

\* C3: the ids that successive successful adds assign are strictly
\* increasing over the registry's lifetime: the id an add assigns is above
\* every id assigned before it, that is above the id of every device that
\* carries one, removed or not.
C3_IdsStrictlyIncreasing ==
    [][\A d \in Inserted(table, table') :
          \A e \in Devs : dev_id[e] < dev_id'[d]]_vars

\* C4: whenever a holder has returned from a successful virtcrypto_dev_get
\* and has not yet released, the owner module is pinned.
C4_HolderKeepsModulePinned ==
    \A t \in Threads, d \in Devs : held[t][d] > 0 => module_refs > 0

\* C5: the device virtcrypto_get_dev_node returns is started at the moment
\* it is returned, also when virtcrypto_dev_stop runs between the
\* traversal and the return.
C5_SelectReturnsStarted ==
    \A t \in Threads :
        (pc[t] = "sel_ret" /\ ret[t] # NULL) => virtcrypto_dev_started(ret[t])

\* C6: the device virtcrypto_get_dev_node has picked is in the table when
\* its reference is taken and when it is returned, also when
\* virtcrypto_devmgr_rm_dev runs in between.
C6_SelectReturnsMember ==
    \A t \in Threads :
        (pc[t] \in {"sel_get", "sel_pin", "sel_ret"} /\ dev[t] # NULL)
            => InTable(dev[t])

\* The started devices in the table, and those among them that are affine
\* to node n: on node n, or on no node.
StartedInTable == {d \in Devs : InTable(d) /\ status[d]}
Affine(n) == {d \in StartedInTable : dev_to_node(d) = n \/ dev_to_node(d) < 0}

\* The place of a device of the table in insertion order.
Place(d) == CHOOSE i \in 1..Len(table) : table[i] = d

\* The caller's virtcrypto_get_dev_node stands at its return.
Selected == pc[Caller] = "sel_ret"

\* ref_count as it was when the call standing at its return began: the
\* call has added one to the device it returns and nothing else has run.
RefBefore(d) == IF d = ret[Caller] THEN ref_count[d] - 1 ELSE ref_count[d]

\* C7: run without interleaving, with a started device affine to the
\* hint, virtcrypto_get_dev_node returns the affine started device with
\* the least ref_count, the earliest in insertion order among equals.
C7_SelectLeastLoadedAffine ==
    (Selected /\ Affine(node[Caller]) # {}) =>
        /\ ret[Caller] \in Affine(node[Caller])
        /\ \A c \in Affine(node[Caller]) :
              \/ RefBefore(ret[Caller]) < RefBefore(c)
              \/ /\ RefBefore(ret[Caller]) = RefBefore(c)
                 /\ Place(ret[Caller]) <= Place(c)

\* C7 restricted to the states in which no affine started device has a
\* negative ref_count.
C7_WhenCountsNonNegative ==
    (\A c \in Affine(node[Caller]) : RefBefore(c) >= 0)
        => C7_SelectLeastLoadedAffine

\* C8: run without interleaving, virtcrypto_get_dev_node returns NULL if
\* and only if the table holds no started device, whatever the hint.
C8_SelectNullIffNoneStarted ==
    Selected => (ret[Caller] = NULL <=> StartedInTable = {})

\* C8, witness: a device is returned although no started device is affine
\* to the hint.
C8_Witness ==
    Selected /\ ret[Caller] # NULL /\ Affine(node[Caller]) = {}

\* C9: run without interleaving, with started devices in the table but
\* none affine to the hint, virtcrypto_get_dev_node returns the first
\* started device in insertion order, whatever the ref_counts.
C9_FallbackFirstStarted ==
    (Selected /\ Affine(node[Caller]) = {} /\ StartedInTable # {}) =>
        /\ ret[Caller] \in StartedInTable
        /\ \A c \in StartedInTable : Place(ret[Caller]) <= Place(c)

\* C9, witness: the fallback returns the first started device although a
\* later started device holds fewer references.
C9_Witness ==
    /\ Selected /\ Affine(node[Caller]) = {} /\ ret[Caller] # NULL
    /\ \E c \in StartedInTable :
          /\ Place(ret[Caller]) < Place(c)
          /\ RefBefore(c) < RefBefore(ret[Caller])

\* References on d that callers hold, threads 1..k.
RECURSIVE HeldBy(_, _)
HeldBy(d, k) == IF k = 0 THEN 0 ELSE held[k][d] + HeldBy(d, k - 1)

\* Threads that stand at position p of a call on d.
At(p, d) == Cardinality({t \in Threads : pc[t] = p /\ dev[t] = d})

\* Pins the owner module must carry for devices 1..k: one for a device
\* whose ref_count is above 0, less one for each 0 -> 1 increment whose
\* try_module_get is still to come, plus one for each 1 -> 0 decrement
\* whose module_put is still to come.
RECURSIVE PinsOwed(_)
PinsOwed(k) ==
    IF k = 0 THEN 0
    ELSE (IF ref_count[k] > 0 THEN 1 ELSE 0)
         - At("get_pin", k) + At("put_unpin", k) + PinsOwed(k - 1)

\* No call is running and no reference is held.
Quiet ==
    \A t \in Threads : pc[t] = "idle" /\ (\A d \in Devs : held[t][d] = 0)

\* C10: under every interleaving of gets, each paired with one later
\* put, ref_count is its value before the sequence (0) plus the
\* references not yet released, so it is back at that value when all are
\* released; the module is pinned once for each 0 -> 1 step of ref_count
\* and unpinned once for each 1 -> 0 step (the module's count is the
\* number of devices in use, corrected for the pins and unpins that are
\* due and not yet made); and the unpins never exceed the pins (the
\* module's count, pins less unpins, is never negative).
C10_PairedGetPutBalance ==
    /\ \A d \in Devs :
          ref_count[d] = HeldBy(d, NumThreads) + At("get_pin", d) + At("get_ret", d)
    /\ module_refs = PinsOwed(NumDevs)
    /\ module_refs >= 0
    /\ Quiet => (module_refs = 0 /\ \A d \in Devs : ref_count[d] = 0)

\* C10, witness: a put that took ref_count of a device from 1 to 0 has
\* its module_put still to make while a get that took it from 0 to 1 again
\* has its try_module_get still to make.
C10_Witness ==
    \E t \in Threads, u \in Threads :
        pc[t] = "put_unpin" /\ pc[u] = "get_pin" /\ dev[t] = dev[u]

\* Thread t's call of virtcrypto_devmgr_add_dev returns in this step.
AddReturns(t) == pc[t] # "add_ret" /\ pc'[t] = "add_ret"

\* C11: starting from the empty registry and with no removal, each add of
\* a device not yet in the table succeeds while the table holds fewer than
\* VIRTIO_CRYPTO_MAX_DEVICES entries, the new device is appended and its
\* id is greater than the id of every device added before it; the add made
\* when the table holds VIRTIO_CRYPTO_MAX_DEVICES entries returns -EFAULT
\* and leaves the table, num_devices and every ref_count and id unchanged.
C11_FillThenReject ==
    [][AddReturns(Caller) =>
        LET d == dev'[Caller] IN
        IF Len(table) = VIRTIO_CRYPTO_MAX_DEVICES
        THEN /\ ret'[Caller] = 0 - EFAULT
             /\ table' = table
             /\ num_devices' = num_devices
             /\ ref_count' = ref_count
             /\ dev_id' = dev_id
        ELSE (\A i \in 1..Len(table) : table[i] # d) =>
             /\ ret'[Caller] = 0
             /\ table' = Append(table, d)
             /\ num_devices' = num_devices + 1
             /\ \A i \in 1..Len(table) :
                   /\ dev_id'[table[i]] = dev_id[table[i]]
                   /\ dev_id'[table[i]] < dev_id'[d]]_vars

\* The table is full and the add of one more device, which has a reference
\* outstanding, has returned -EFAULT.
C11_Witness ==
    /\ pc[Caller] = "add_ret"
    /\ ret[Caller] = 0 - EFAULT
    /\ Len(table) = VIRTIO_CRYPTO_MAX_DEVICES
    /\ \A i \in 1..Len(table) : table[i] # dev[Caller]
    /\ ref_count[dev[Caller]] > 0

\* No device is linked into the list twice.
NoDuplicate == \A d \in Devs : Cardinality(Positions(d)) <= 1

\* Thread t's add returns in this step, its device being in the table, and
\* the registry is as it was.
RejectsPresent(t) == AddReturns(t) /\ Positions(dev'[t]) # {}

RegistryUnchanged ==
    /\ table' = table
    /\ num_devices' = num_devices
    /\ dev_id' = dev_id
    /\ ref_count' = ref_count

\* C12 as stated: an add of a device that is in the table returns -EEXIST
\* and changes nothing, whether or not the table is full, and under
\* concurrent adds no device is ever in the table twice.
C12_PresentAlwaysExists ==
    [][/\ NoDuplicate'
       /\ \A t \in Threads : RejectsPresent(t) =>
             ret'[t] = 0 - EEXIST /\ RegistryUnchanged]_vars

\* C12: an add of a device that is in the table fails and changes nothing;
\* it returns -EFAULT when the capacity test finds num_devices equal to
\* VIRTIO_CRYPTO_MAX_DEVICES and -EEXIST when the duplicate scan finds the
\* device; under concurrent adds no device is ever in the table twice.
C12_PresentRejected ==
    [][/\ NoDuplicate'
       /\ \A t \in Threads : RejectsPresent(t) =>
             /\ RegistryUnchanged
             /\ IF pc[t] = "idle"
                THEN num_devices = VIRTIO_CRYPTO_MAX_DEVICES /\ ret'[t] = 0 - EFAULT
                ELSE ret'[t] = 0 - EEXIST]_vars

\* The table is full, a device in it was added again and the call returned
\* -EFAULT.
C12_Witness ==
    \E t \in Threads :
        /\ pc[t] = "add_ret"
        /\ ret[t] = 0 - EFAULT
        /\ Positions(dev[t]) # {}
        /\ Len(table) = VIRTIO_CRYPTO_MAX_DEVICES
        /\ num_devices = VIRTIO_CRYPTO_MAX_DEVICES

\* C13: virtcrypto_dev_start returning 0 leaves the device STARTED,
\* returning an error it leaves the status as it was; virtcrypto_dev_stop
\* leaves the device not STARTED; neither changes the status of another
\* device, the table, num_devices, or any id or ref_count; and the selector
\* returns only a device that is STARTED, so a device whose start failed
\* is not selectable.
C13_StartStopStatus ==
    [][/\ \A t \in Threads :
             (pc[t] = "idle" /\ pc'[t] \in {"start_ret", "stop_ret"}) =>
                 LET d == dev'[t] IN
                 /\ RegistryUnchanged
                 /\ \A e \in Devs \ {d} : status'[e] = status[e]
                 /\ IF pc'[t] = "stop_ret" THEN ~status'[d]
                    ELSE IF ret'[t] = 0 THEN status'[d]
                    ELSE status'[d] = status[d]
       /\ \A t \in Threads :
             (pc'[t] = "sel_ret" /\ ret'[t] # NULL) => status'[ret'[t]]]_vars

\* The start of a device that is in the table and not STARTED has failed,
\* and the device is still not STARTED.
C13_Witness ==
    /\ pc[Caller] = "start_ret"
    /\ ret[Caller] # 0
    /\ Positions(dev[Caller]) # {}
    /\ ~status[dev[Caller]]

\* C14: virtcrypto_dev_get adds one to ref_count and calls try_module_get
\* exactly when the count went from 0 to 1; otherwise it returns 0 and
\* leaves the module's count alone.  When try_module_get fails the call
\* returns -EFAULT, ref_count stays at 1 and the module is not pinned;
\* when it succeeds the call returns 0 with the module pinned once more.
C14_PinOnlyOnFirstGet ==
    [][\A t \in Threads :
          /\ (pc[t] = "idle" /\ pc'[t] \in {"get_pin", "get_ret"}) =>
                LET d == dev'[t] IN
                /\ ref_count' = [ref_count EXCEPT ![d] = @ + 1]
                /\ module_refs' = module_refs
                /\ (pc'[t] = "get_pin") <=> (ref_count[d] = 0)
                /\ (pc'[t] = "get_ret") => (ret'[t] = 0)
          /\ (pc[t] = "get_pin" /\ pc'[t] = "get_ret") =>
                /\ ref_count' = ref_count
                /\ ref_count'[dev'[t]] = 1
                /\ IF ret'[t] = 0
                   THEN module_refs' = module_refs + 1
                   ELSE ret'[t] = 0 - EFAULT /\ module_refs' = module_refs]_vars

\* try_module_get has failed on the first reference of a device: the call
\* has returned -EFAULT, ref_count is 1 and the module is not pinned.
C14_Witness ==
    /\ pc[Caller] = "get_ret"
    /\ ret[Caller] = 0 - EFAULT
    /\ ref_count[dev[Caller]] = 1
    /\ module_refs = 0

\* C15: between the calls of one caller that keeps its releases paired
\* with its acquisitions, every ref_count is non-negative and equals the
\* number of references the caller was given and has not released, also
\* when a device is removed while held and added again.
C15_RefCountCountsHolders ==
    pc[Caller] = "idle" =>
        \A d \in Devs : ref_count[d] >= 0 /\ ref_count[d] = held[Caller][d]

\* Thread t takes a step of a call of virtcrypto_get_dev_node.
SelectStep(t) ==
    pc'[t] # pc[t] /\ pc'[t] \in {"sel_any", "sel_get", "sel_pin", "sel_ret"}

\* C16: a call of the selector changes neither the table, num_devices, nor
\* the id or status of any device; on its way to returning a device it
\* adds one, once, to the ref_count of that device and changes no other
\* ref_count, and it returns that device also when try_module_get fails;
\* a call that returns NULL changes nothing at all.
C16_SelectFrame ==
    [][\A t \in Threads : SelectStep(t) =>
          /\ table' = table
          /\ table_lock' = table_lock
          /\ num_devices' = num_devices
          /\ dev_id' = dev_id
          /\ status' = status
          /\ (pc'[t] = "sel_any") => (pc[t] = "idle")
          /\ (pc'[t] = "sel_get") => (pc[t] \in {"idle", "sel_any"})
          /\ (pc'[t] = "sel_pin") => (pc[t] = "sel_get")
          /\ IF pc[t] = "sel_get"
             THEN /\ ref_count' = [ref_count EXCEPT ![dev[t]] = @ + 1]
                  /\ dev'[t] = dev[t]
             ELSE ref_count' = ref_count
          /\ (pc[t] \in {"idle", "sel_any"}) => (module_refs' = module_refs)
          /\ (pc'[t] = "sel_ret") =>
                IF pc[t] = "sel_any"
                THEN ret'[t] = NULL
                ELSE ret'[t] = dev[t] /\ ret'[t] # NULL]_vars

\* The selector has returned a device whose only reference it has just
\* taken, try_module_get having failed: the module is not pinned.
C16_Witness ==
    /\ pc[Caller] = "sel_ret"
    /\ ret[Caller] # NULL
    /\ ref_count[ret[Caller]] = 1
    /\ module_refs = 0

\* The list s without the device h, the others in their order.
Without(s, h) ==
    LET Others(e) == e # h IN SelectSeq(s, Others)

\* C17: virtcrypto_devmgr_rm_dev of a device in the table unlinks that
\* device and no other, whatever its ref_count, takes one off num_devices
\* and changes no ref_count, status or id; the devices that remain keep
\* their order.  As add appends, the table is in the order of addition,
\* and virtcrypto_devmgr_get_first returns its first entry, the earliest
\* added device still in it, or NULL when it is empty, and changes nothing.
C17_RemoveFrameAndFirst ==
    [][\A t \in Threads :
          /\ (pc[t] = "rm_body" /\ pc'[t] # "rm_body") =>
                /\ Cardinality(Positions(dev[t])) = 1
                /\ table' = Without(table, dev[t])
                /\ num_devices' = num_devices - 1
                /\ ref_count' = ref_count
                /\ status' = status
                /\ dev_id' = dev_id
          /\ (pc[t] = "add_body" /\ pc'[t] # "add_body") =>
                table' = table \/ table' = Append(table, dev[t])
          /\ (pc[t] = "idle" /\ pc'[t] = "first_ret") =>
                /\ ret'[t] = IF table = <<>> THEN NULL ELSE table[1]
                /\ table' = table
                /\ num_devices' = num_devices
                /\ ref_count' = ref_count
                /\ status' = status
                /\ dev_id' = dev_id]_vars

\* The device added first was removed while a reference on it was
\* outstanding, and virtcrypto_devmgr_get_first has returned a device
\* added after it.
C17_Witness ==
    /\ pc[Caller] = "first_ret"
    /\ ret[Caller] # NULL
    /\ \E d \in Devs :
          /\ Positions(d) = {}
          /\ dev_id[d] # NoId
          /\ dev_id[d] < dev_id[ret[Caller]]
          /\ ref_count[d] > 0
          /\ status[d]

\* C18: the mutex is held only by a thread inside the locked section of
\* add or remove, so every return path has released it; and under a fair
\* scheduler every call of add or remove that waits for the mutex or holds
\* it returns.
C18_LockReleasedAndCallsReturn ==
    /\ [](\A t \in Threads : table_lock = t => pc[t] \in {"add_body", "rm_body"})
    /\ \A t \in Threads :
          (pc[t] \in {"add_lock", "add_body", "rm_lock", "rm_body"})
              ~> (pc[t] \in {"add_ret", "idle"})

\* One thread has come back from the duplicate path with -EEXIST, and the
\* mutex is free for another thread that waits for it.
C18_Witness ==
    \E t \in Threads, u \in Threads :
        /\ pc[t] = "add_ret"
        /\ ret[t] = 0 - EEXIST
        /\ pc[u] \in {"add_lock", "rm_lock"}
        /\ table_lock = NULL

\* C19: whenever virtcrypto_dev_get returns 0 the owning module is pinned,
\* also when an earlier call on the device failed to pin it and was not
\* followed by a release.
C19_SuccessMeansPinned ==
    \A t \in Threads :
        (pc[t] = "get_ret" /\ ret[t] = 0) => module_refs > 0

\* C20: whenever no thread is inside the locked section of add or remove,
\* num_devices is the number of entries of the table; and a step changes
\* the table or num_devices only if it is the locked section of add or of
\* remove.
C20_CountMatchesTable ==
    /\ [](table_lock = NULL => num_devices = Len(table))
    /\ [][(table' # table \/ num_devices' # num_devices) =>
             \E t \in Threads :
                 /\ table_lock = t
                 /\ pc[t] \in {"add_body", "rm_body"}
                 /\ pc'[t] # pc[t]]_vars

\* Every device has been added, one that was started has been removed
\* again, the table is full and the mutex is free.
C20_Witness ==
    /\ table_lock = NULL
    /\ num_devices = VIRTIO_CRYPTO_MAX_DEVICES
    /\ Len(table) = VIRTIO_CRYPTO_MAX_DEVICES
    /\ \A d \in Devs : dev_id[d] # NoId
    /\ \E d \in Devs : status[d] /\ Positions(d) = {}

====
